---- MODULE Spec2Model ----
(***************************************************************************)
(* Model of src/shared/ebm_native/InnerBag.cpp: the two bag factories      *)
(* (GenerateSingleInnerBag, GenerateFlatInnerBag), the bag's Free, and the *)
(* bag-set orchestration (GenerateInnerBags, FreeInnerBags), over an       *)
(* explicit heap so that leaks, double frees and wild frees are visible.   *)
(* Spec takes every operation as one step of a single caller; ScenarioSpec *)
(* is the documented four-sample scenario; ThreadSpec takes two            *)
(* GenerateSingleInnerBag calls in steps, interleaved; ConstructSpec takes *)
(* GenerateInnerBags statement by statement.                               *)
(***************************************************************************)
EXTENDS Integers, Sequences, FiniteSets, TLC

\* ------------------------------------------------------------------ bounds
\* largest cSamples a call is made with
MaxSamples == 2
\* largest cInnerBags a call is made with
MaxBags == 2
\* period of the modelled deterministic generator
TapeLen == 3
\* largest finite magnitude of the fast floating type (stands for FLT_MAX)
FastMax == 3
\* largest finite magnitude of the big floating type (stands for DBL_MAX)
BigMax == 5

\* ------------------------------------------------------------------ floats
\* A floating value is finite (an integer of bounded magnitude), an infinity
\* (v is its sign) or a NaN.
Fin(n) == [k |-> "fin", v |-> n]
PosInf == [k |-> "inf", v |-> 1]
NegInf == [k |-> "inf", v |-> -1]
NaN == [k |-> "nan", v |-> 0]

IsNan(x) == x.k = "nan"
IsInf(x) == x.k = "inf"
IsFinite(x) == x.k = "fin"
Sign(x) == IF x.v > 0 THEN 1 ELSE IF x.v < 0 THEN -1 ELSE 0

\* a real result brought into a floating type: it overflows to an infinity
Rounded(n, max) == IF n > max THEN PosInf ELSE IF n < -max THEN NegInf ELSE Fin(n)

\* total <= 0 of line 85 / 143: false for a NaN, decided by the sign otherwise
LeqZero(x) == (~IsNan(x)) /\ x.v <= 0

\* a * b in a floating type of largest magnitude max
FloatMul(a, b, max) ==
  IF IsNan(a) \/ IsNan(b) THEN NaN
  ELSE IF IsInf(a) \/ IsInf(b)
       THEN (IF Sign(a) * Sign(b) = 0 THEN NaN
             ELSE [k |-> "inf", v |-> Sign(a) * Sign(b)])
       ELSE Rounded(a.v * b.v, max)

\* a + b in a floating type of largest magnitude max
FloatAdd(a, b, max) ==
  IF IsNan(a) \/ IsNan(b) THEN NaN
  ELSE IF IsInf(a) /\ IsInf(b) THEN (IF a.v = b.v THEN a ELSE NaN)
  ELSE IF IsInf(a) THEN a
  ELSE IF IsInf(b) THEN b
  ELSE Rounded(a.v + b.v, max)

\* static_cast<FloatFast>(size_t) and static_cast<FloatBig>(size_t)
FromSizeT(n) == Fin(n)

\* the running sum acc extended by pVals[i .. cVals]
RECURSIVE SumFrom(_, _, _, _)
SumFrom(cVals, pVals, i, acc) ==
  IF i > cVals THEN acc
  ELSE SumFrom(cVals, pVals, i + 1, FloatAdd(acc, pVals[i], BigMax))

\* the safe summation collaborator: the sum of the values in the big type,
\* non-finite when an input is non-finite or the sum is not representable
AddPositiveFloatsSafeBig(cVals, pVals) == SumFrom(cVals, pVals, 1, Fin(0))

\* ------------------------------------------------------------------ the generator
\* The generator's state is the cyclic sequence of its coming raw outputs.
RawVals == 0 .. (MaxSamples - 1)

\* the sequences of n elements of S
RECURSIVE SeqsOf(_, _)
SeqsOf(S, n) ==
  IF n = 0 THEN {<<>>} ELSE {Append(q, x) : q \in SeqsOf(S, n - 1), x \in S}

RngStates == SeqsOf(RawVals, TapeLen)

\* RandomDeterministic::Initialize(other): take over the other's state
RngInitialize(other) == other

\* RandomDeterministic::NextFast(n): a value in [0, n) and the advanced state
NextFast(r, n) == [val |-> r[1] % n, rng |-> Append(SubSeq(r, 2, Len(r)), r[1])]

RECURSIVE Advance(_, _)
Advance(r, n) == IF n = 0 THEN r ELSE Advance(NextFast(r, 1).rng, n - 1)

\* ------------------------------------------------------------------ the heap
NULL == 0
\* the value of a pointer that was never set
Wild == -1

\* h = [mem, ub, mallocs, failAt, garbage]: the blocks ever allocated (a pointer
\* is an index into mem), whether undefined behaviour happened, the number of
\* allocation requests so far, the request that fails (0: none), the content
\* of fresh memory.
Block(kind, ints, flts) ==
  [kind |-> kind, live |-> TRUE, frees |-> 0, ints |-> ints, flts |-> flts]

RECURSIVE Fill(_, _)
Fill(n, v) == IF n = 0 THEN <<>> ELSE Append(Fill(n - 1, v), v)

FreshBlock(kind, n, g) ==
  CASE kind = "InnerBag" -> Block(kind, <<Wild, Wild>>, <<Fin(g)>>)
    [] kind = "size_t" -> Block(kind, Fill(n, g), <<>>)
    [] kind = "FloatFast" -> Block(kind, <<>>, Fill(n, Fin(g)))
    [] OTHER -> Block(kind, Fill(n, Wild), <<>>)

\* EbmMalloc<T>(n): the next block, or nullptr when this request fails
EbmMalloc(h, kind, n) ==
  LET k == h.mallocs + 1 IN
  IF k = h.failAt
  THEN [h |-> [h EXCEPT !.mallocs = k], p |-> NULL]
  ELSE [h |-> [h EXCEPT !.mallocs = k,
                        !.mem = Append(@, FreshBlock(kind, n, h.garbage))],
        p |-> Len(h.mem) + 1]

IsLive(h, p) == p \in 1 .. Len(h.mem) /\ h.mem[p].live

\* free(p): nothing for nullptr; undefined for a pointer that is not a live block
free(h, p) ==
  IF p = NULL THEN h
  ELSE IF ~(p \in 1 .. Len(h.mem)) THEN [h EXCEPT !.ub = TRUE]
  ELSE [h EXCEPT !.ub = @ \/ ~h.mem[p].live,
                 !.mem[p].live = FALSE,
                 !.mem[p].frees = @ + 1,
                 !.mem[p].ints = <<>>,
                 !.mem[p].flts = <<>>]

\* a read of p->ints[i]; Wild (with ub set by the caller) when it is no live cell
ReadInt(h, p, i) ==
  IF IsLive(h, p) /\ i \in 1 .. Len(h.mem[p].ints) THEN h.mem[p].ints[i] ELSE Wild

CanReadInt(h, p, i) == IsLive(h, p) /\ i \in 1 .. Len(h.mem[p].ints)

\* the fields of an InnerBag block
FieldCount == 1
FieldWeights == 2

\* InitializeUnfailing forgotten: both array pointers keep what fresh memory held
InitializeUnfailingSkipped(h, this) == h

\* InnerBag::InitializeUnfailing
InitializeUnfailing(h, this) ==
  [h EXCEPT !.mem[this].ints = <<NULL, NULL>>]

\* InnerBag::Free with free(m_aWeights) forgotten
InnerBagFreeLeaksWeights(h, this) ==
  LET ok == CanReadInt(h, this, FieldCount)
      h0 == [h EXCEPT !.ub = @ \/ ~ok]
      h1 == free(h0, ReadInt(h, this, FieldCount))
  IN free(h1, this)

\* InnerBag::Free
InnerBagFree(h, this) ==
  LET ok == CanReadInt(h, this, FieldWeights)
      h0 == [h EXCEPT !.ub = @ \/ ~ok]
      h1 == free(h0, ReadInt(h, this, FieldCount))
      h2 == free(h1, ReadInt(h, this, FieldWeights))
  IN free(h2, this)

\* ------------------------------------------------------------------ the factories
\* line 56 forgotten: the occurrence array keeps what fresh memory held
MemsetSkipped(h, p, cSamples) == h

\* memset(aCountOccurrences, 0, cSamples * sizeof(size_t)), line 56
Memset(h, p, cSamples) == [h EXCEPT !.mem[p].ints = Fill(cSamples, 0)]

\* the sampling loop stopping one draw early
RECURSIVE SampleLoopOneShort(_, _, _, _)
SampleLoopOneShort(counts, cpuRng, iSample, cSamples) ==
  IF iSample + 1 >= cSamples THEN [counts |-> counts, rng |-> cpuRng]
  ELSE LET d == NextFast(cpuRng, cSamples)
           iCountOccurrences == d.val + 1
       IN SampleLoopOneShort([counts EXCEPT ![iCountOccurrences] = @ + 1],
                             d.rng, iSample + 1, cSamples)

\* the sampling loop counting the iteration instead of the index drawn
RECURSIVE SampleLoopCountsIteration(_, _, _, _)
SampleLoopCountsIteration(counts, cpuRng, iSample, cSamples) ==
  IF iSample >= cSamples THEN [counts |-> counts, rng |-> cpuRng]
  ELSE LET d == NextFast(cpuRng, cSamples)
       IN SampleLoopCountsIteration([counts EXCEPT ![iSample + 1] = @ + 1],
                                    d.rng, iSample + 1, cSamples)

\* the sampling loop of lines 61-64 from iteration iSample on: counts is the
\* occurrence array, cpuRng the working copy of the generator
RECURSIVE SampleLoop(_, _, _, _)
SampleLoop(counts, cpuRng, iSample, cSamples) ==
  IF iSample >= cSamples THEN [counts |-> counts, rng |-> cpuRng]
  ELSE LET d == NextFast(cpuRng, cSamples)
           iCountOccurrences == d.val + 1
       IN SampleLoop([counts EXCEPT ![iCountOccurrences] = @ + 1],
                     d.rng, iSample + 1, cSamples)

\* the caller's weights, read through the pointer aWeights
WeightsAt(h, aWeights) == h.mem[aWeights].flts

\* the loop of lines 69-72 up to iteration cSamples:
\* weight = static_cast<FloatFast>(count)
RECURSIVE CountsAsWeights(_, _)
CountsAsWeights(counts, cSamples) ==
  IF cSamples = 0 THEN <<>>
  ELSE Append(CountsAsWeights(counts, cSamples - 1), FromSizeT(counts[cSamples]))

\* the loop of lines 79-83 with the multiplication by the count forgotten
WeightsWithoutCounts(counts, w, cSamples) == SubSeq(w, 1, cSamples)

\* the loop of lines 79-83 up to iteration cSamples:
\* weight = static_cast<FloatFast>(count) * aWeights[i]
RECURSIVE CountsTimesWeights(_, _, _)
CountsTimesWeights(counts, w, cSamples) ==
  IF cSamples = 0 THEN <<>>
  ELSE Append(CountsTimesWeights(counts, w, cSamples - 1),
              FloatMul(FromSizeT(counts[cSamples]), w[cSamples], FastMax))

\* the test of lines 85 and 143 without total <= 0
BadTotalWithoutSign(total) == IsNan(total) \/ IsInf(total)

\* the test of lines 85 and 143
BadTotal(total) == IsNan(total) \/ IsInf(total) \/ LeqZero(total)

\* what a factory hands back: the heap, the generator handle, the pointer
Outcome(h, r, p) == [h |-> h, rng |-> r, ret |-> p]

\* lines 56-98 putting the generator handle back to its state at entry when
\* the total is rejected
SingleFillRestoresRng(h, pRng, cSamples, aWeights, pRet, aCountOccurrences, aWeightsInternal) ==
  LET h1 == Memset(h, aCountOccurrences, cSamples)
      cpuRng == RngInitialize(pRng)
      s == SampleLoop(h1.mem[aCountOccurrences].ints, cpuRng, 0, cSamples)
      h2 == [h1 EXCEPT !.mem[aCountOccurrences].ints = s.counts]
      rngOut == RngInitialize(s.rng)
  IN IF aWeights = NULL
     THEN LET h3 == [h2 EXCEPT !.mem[aWeightsInternal].flts =
                                  CountsAsWeights(s.counts, cSamples)]
              total == FromSizeT(cSamples)
          IN Outcome([h3 EXCEPT !.mem[pRet].flts = <<total>>], rngOut, pRet)
     ELSE LET h3 == [h2 EXCEPT !.mem[aWeightsInternal].flts =
                                  CountsTimesWeights(s.counts, WeightsAt(h2, aWeights), cSamples)]
              total == AddPositiveFloatsSafeBig(cSamples, h3.mem[aWeightsInternal].flts)
          IN IF BadTotal(total)
             THEN Outcome(InnerBagFree(h3, pRet), pRng, NULL)
             ELSE Outcome([h3 EXCEPT !.mem[pRet].flts = <<total>>], rngOut, pRet)

\* lines 56-98 of GenerateSingleInnerBag, after the three allocations
SingleFill(h, pRng, cSamples, aWeights, pRet, aCountOccurrences, aWeightsInternal) ==
  LET h1 == Memset(h, aCountOccurrences, cSamples)
      cpuRng == RngInitialize(pRng)
      s == SampleLoop(h1.mem[aCountOccurrences].ints, cpuRng, 0, cSamples)
      h2 == [h1 EXCEPT !.mem[aCountOccurrences].ints = s.counts]
      rngOut == RngInitialize(s.rng)
  IN IF aWeights = NULL
     THEN LET h3 == [h2 EXCEPT !.mem[aWeightsInternal].flts =
                                  CountsAsWeights(s.counts, cSamples)]
              total == FromSizeT(cSamples)
          IN Outcome([h3 EXCEPT !.mem[pRet].flts = <<total>>], rngOut, pRet)
     ELSE LET h3 == [h2 EXCEPT !.mem[aWeightsInternal].flts =
                                  CountsTimesWeights(s.counts, WeightsAt(h2, aWeights), cSamples)]
              total == AddPositiveFloatsSafeBig(cSamples, h3.mem[aWeightsInternal].flts)
          IN IF BadTotal(total)
             THEN Outcome(InnerBagFree(h3, pRet), rngOut, NULL)
             ELSE Outcome([h3 EXCEPT !.mem[pRet].flts = <<total>>], rngOut, pRet)

\* InnerBag::GenerateSingleInnerBag
GenerateSingleInnerBag(h, pRng, cSamples, aWeights) ==
  LET a1 == EbmMalloc(h, "InnerBag", 1) IN
  IF a1.p = NULL THEN Outcome(a1.h, pRng, NULL)
  ELSE
  LET pRet == a1.p
      a2 == EbmMalloc(InitializeUnfailing(a1.h, pRet), "size_t", cSamples) IN
  IF a2.p = NULL THEN Outcome(InnerBagFree(a2.h, pRet), pRng, NULL)
  ELSE
  LET a3 == EbmMalloc([a2.h EXCEPT !.mem[pRet].ints[FieldCount] = a2.p],
                      "FloatFast", cSamples) IN
  IF a3.p = NULL THEN Outcome(InnerBagFree(a3.h, pRet), pRng, NULL)
  ELSE SingleFill([a3.h EXCEPT !.mem[pRet].ints[FieldWeights] = a3.p],
                  pRng, cSamples, aWeights, pRet, a2.p, a3.p)

\* lines 134-160 with the memcpy of line 148 forgotten
FlatFillWithoutCopy(h, cSamples, aWeights, pRet, aCountOccurrences, aWeightsInternal) ==
  IF aWeights = NULL
  THEN LET h1 == [h EXCEPT !.mem[aCountOccurrences].ints = Fill(cSamples, 1),
                           !.mem[aWeightsInternal].flts = Fill(cSamples, Fin(1))]
           total == FromSizeT(cSamples)
       IN [h |-> [h1 EXCEPT !.mem[pRet].flts = <<total>>], ret |-> pRet]
  ELSE LET total == AddPositiveFloatsSafeBig(cSamples, WeightsAt(h, aWeights))
       IN IF BadTotal(total)
          THEN [h |-> InnerBagFree(h, pRet), ret |-> NULL]
          ELSE [h |-> [h EXCEPT !.mem[aCountOccurrences].ints = Fill(cSamples, 1),
                                !.mem[pRet].flts = <<total>>],
                ret |-> pRet]

\* lines 134-160 keeping the caller's array as the bag's weights instead of
\* copying it
FlatFillRetainsCaller(h, cSamples, aWeights, pRet, aCountOccurrences, aWeightsInternal) ==
  IF aWeights = NULL
  THEN LET h1 == [h EXCEPT !.mem[aCountOccurrences].ints = Fill(cSamples, 1),
                           !.mem[aWeightsInternal].flts = Fill(cSamples, Fin(1))]
           total == FromSizeT(cSamples)
       IN [h |-> [h1 EXCEPT !.mem[pRet].flts = <<total>>], ret |-> pRet]
  ELSE LET total == AddPositiveFloatsSafeBig(cSamples, WeightsAt(h, aWeights))
       IN IF BadTotal(total)
          THEN [h |-> InnerBagFree(h, pRet), ret |-> NULL]
          ELSE [h |-> [free(h, aWeightsInternal)
                         EXCEPT !.mem[pRet].ints[FieldWeights] = aWeights,
                                !.mem[aCountOccurrences].ints = Fill(cSamples, 1),
                                !.mem[pRet].flts = <<total>>],
                ret |-> pRet]

\* lines 134-160 of GenerateFlatInnerBag, after the three allocations
FlatFill(h, cSamples, aWeights, pRet, aCountOccurrences, aWeightsInternal) ==
  IF aWeights = NULL
  THEN LET h1 == [h EXCEPT !.mem[aCountOccurrences].ints = Fill(cSamples, 1),
                           !.mem[aWeightsInternal].flts = Fill(cSamples, Fin(1))]
           total == FromSizeT(cSamples)
       IN [h |-> [h1 EXCEPT !.mem[pRet].flts = <<total>>], ret |-> pRet]
  ELSE LET total == AddPositiveFloatsSafeBig(cSamples, WeightsAt(h, aWeights))
       IN IF BadTotal(total)
          THEN [h |-> InnerBagFree(h, pRet), ret |-> NULL]
          ELSE [h |-> [h EXCEPT !.mem[aWeightsInternal].flts =
                                   SubSeq(WeightsAt(h, aWeights), 1, cSamples),
                                !.mem[aCountOccurrences].ints = Fill(cSamples, 1),
                                !.mem[pRet].flts = <<total>>],
                ret |-> pRet]

\* InnerBag::GenerateFlatInnerBag
GenerateFlatInnerBag(h, cSamples, aWeights) ==
  LET a1 == EbmMalloc(h, "InnerBag", 1) IN
  IF a1.p = NULL THEN [h |-> a1.h, ret |-> NULL]
  ELSE
  LET pRet == a1.p
      a2 == EbmMalloc(InitializeUnfailing(a1.h, pRet), "size_t", cSamples) IN
  IF a2.p = NULL THEN [h |-> InnerBagFree(a2.h, pRet), ret |-> NULL]
  ELSE
  LET a3 == EbmMalloc([a2.h EXCEPT !.mem[pRet].ints[FieldCount] = a2.p],
                      "FloatFast", cSamples) IN
  IF a3.p = NULL THEN [h |-> InnerBagFree(a3.h, pRet), ret |-> NULL]
  ELSE FlatFill([a3.h EXCEPT !.mem[pRet].ints[FieldWeights] = a3.p],
                cSamples, aWeights, pRet, a2.p, a3.p)

\* ------------------------------------------------------------------ the bag set
\* the count of slots: zero means one (lines 179 and 205)
AfterZero(cInnerBags) == IF cInnerBags = 0 THEN 1 ELSE cInnerBags

\* the do-while of lines 181-187 without the test of line 183
RECURSIVE FreeLoopWithoutNullTest(_, _, _, _)
FreeLoopWithoutNullTest(h, apInnerBags, iInnerBag, cInnerBagsAfterZero) ==
  LET ok == CanReadInt(h, apInnerBags, iInnerBag + 1)
      pInnerBag == ReadInt(h, apInnerBags, iInnerBag + 1)
      h0 == [h EXCEPT !.ub = @ \/ ~ok]
      h1 == InnerBagFree(h0, pInnerBag)
      skipped == IF pInnerBag = NULL THEN 1 ELSE 0
  IN IF cInnerBagsAfterZero = iInnerBag + 1
     THEN [h |-> h1, scanned |-> iInnerBag + 1, nulls |-> skipped]
     ELSE LET rest == FreeLoopWithoutNullTest(h1, apInnerBags, iInnerBag + 1,
                                              cInnerBagsAfterZero)
          IN [rest EXCEPT !.nulls = @ + skipped]

\* the do-while of lines 181-187 from slot iInnerBag (0-based) on; scanned
\* counts the slots read, nulls those of them found null and skipped
RECURSIVE FreeLoop(_, _, _, _)
FreeLoop(h, apInnerBags, iInnerBag, cInnerBagsAfterZero) ==
  LET ok == CanReadInt(h, apInnerBags, iInnerBag + 1)
      pInnerBag == ReadInt(h, apInnerBags, iInnerBag + 1)
      h0 == [h EXCEPT !.ub = @ \/ ~ok]
      h1 == IF pInnerBag # NULL THEN InnerBagFree(h0, pInnerBag) ELSE h0
      skipped == IF pInnerBag = NULL THEN 1 ELSE 0
  IN IF cInnerBagsAfterZero = iInnerBag + 1
     THEN [h |-> h1, scanned |-> iInnerBag + 1, nulls |-> skipped]
     ELSE LET rest == FreeLoop(h1, apInnerBags, iInnerBag + 1, cInnerBagsAfterZero)
          IN [rest EXCEPT !.nulls = @ + skipped]

\* FreeInnerBags without the sentinel of line 179: for cInnerBags = 0 the
\* do-while runs past the single slot
FreeInnerBagsWithoutSentinel(h, cInnerBags, apInnerBags) ==
  IF apInnerBags # NULL
  THEN LET f == FreeLoop(h, apInnerBags, 0, IF cInnerBags = 0 THEN 2 ELSE cInnerBags)
       IN [h |-> free(f.h, apInnerBags), scanned |-> f.scanned, nulls |-> f.nulls]
  ELSE [h |-> h, scanned |-> 0, nulls |-> 0]

\* InnerBag::FreeInnerBags
FreeInnerBags(h, cInnerBags, apInnerBags) ==
  IF apInnerBags # NULL
  THEN LET f == FreeLoop(h, apInnerBags, 0, AfterZero(cInnerBags))
       IN [h |-> free(f.h, apInnerBags), scanned |-> f.scanned, nulls |-> f.nulls]
  ELSE [h |-> h, scanned |-> 0, nulls |-> 0]

\* the do-while of lines 227-236 releasing only the slot sequence on failure
RECURSIVE BagLoopWithoutRollback(_, _, _, _, _, _, _)
BagLoopWithoutRollback(h, pRng, cSamples, aWeights, cInnerBags, apInnerBags, iInnerBag) ==
  LET o == GenerateSingleInnerBag(h, pRng, cSamples, aWeights) IN
  IF o.ret = NULL
  THEN Outcome(free(o.h, apInnerBags), o.rng, NULL)
  ELSE LET h1 == [o.h EXCEPT !.mem[apInnerBags].ints[iInnerBag + 1] = o.ret] IN
       IF cInnerBags = iInnerBag + 1
       THEN Outcome(h1, o.rng, apInnerBags)
       ELSE BagLoopWithoutRollback(h1, o.rng, cSamples, aWeights, cInnerBags,
                                   apInnerBags, iInnerBag + 1)

\* the do-while of lines 227-236 handing every bag the generator state the
\* set construction was entered with
RECURSIVE BagLoopSameRng(_, _, _, _, _, _, _)
BagLoopSameRng(h, pRng, cSamples, aWeights, cInnerBags, apInnerBags, iInnerBag) ==
  LET o == GenerateSingleInnerBag(h, pRng, cSamples, aWeights) IN
  IF o.ret = NULL
  THEN Outcome(FreeInnerBags(o.h, cInnerBags, apInnerBags).h, o.rng, NULL)
  ELSE LET h1 == [o.h EXCEPT !.mem[apInnerBags].ints[iInnerBag + 1] = o.ret] IN
       IF cInnerBags = iInnerBag + 1
       THEN Outcome(h1, o.rng, apInnerBags)
       ELSE BagLoopSameRng(h1, pRng, cSamples, aWeights, cInnerBags, apInnerBags,
                           iInnerBag + 1)

\* the do-while of lines 227-236 from slot iInnerBag (0-based) on
RECURSIVE BagLoop(_, _, _, _, _, _, _)
BagLoop(h, pRng, cSamples, aWeights, cInnerBags, apInnerBags, iInnerBag) ==
  LET o == GenerateSingleInnerBag(h, pRng, cSamples, aWeights) IN
  IF o.ret = NULL
  THEN Outcome(FreeInnerBags(o.h, cInnerBags, apInnerBags).h, o.rng, NULL)
  ELSE LET h1 == [o.h EXCEPT !.mem[apInnerBags].ints[iInnerBag + 1] = o.ret] IN
       IF cInnerBags = iInnerBag + 1
       THEN Outcome(h1, o.rng, apInnerBags)
       ELSE BagLoop(h1, o.rng, cSamples, aWeights, cInnerBags, apInnerBags, iInnerBag + 1)

\* GenerateInnerBags building its flat bag without the caller's weights
GenerateInnerBagsFlatUnweighted(h, pRng, cSamples, aWeights, cInnerBags) ==
  LET cInnerBagsAfterZero == AfterZero(cInnerBags)
      a == EbmMalloc(h, "InnerBagPtr", cInnerBagsAfterZero) IN
  IF a.p = NULL THEN Outcome(a.h, pRng, NULL)
  ELSE
  LET apInnerBags == a.p
      h1 == [a.h EXCEPT !.mem[apInnerBags].ints = Fill(cInnerBagsAfterZero, NULL)] IN
  IF cInnerBags = 0
  THEN LET f == GenerateFlatInnerBag(h1, cSamples, NULL) IN
       IF f.ret = NULL
       THEN Outcome(free(f.h, apInnerBags), pRng, NULL)
       ELSE Outcome([f.h EXCEPT !.mem[apInnerBags].ints[1] = f.ret], pRng, apInnerBags)
  ELSE BagLoop(h1, pRng, cSamples, aWeights, cInnerBags, apInnerBags, 0)

\* GenerateInnerBags resampling its single bag when cInnerBags is 0
GenerateInnerBagsZeroBootstraps(h, pRng, cSamples, aWeights, cInnerBags) ==
  LET cInnerBagsAfterZero == AfterZero(cInnerBags)
      a == EbmMalloc(h, "InnerBagPtr", cInnerBagsAfterZero) IN
  IF a.p = NULL THEN Outcome(a.h, pRng, NULL)
  ELSE
  LET apInnerBags == a.p
      h1 == [a.h EXCEPT !.mem[apInnerBags].ints = Fill(cInnerBagsAfterZero, NULL)] IN
  BagLoop(h1, pRng, cSamples, aWeights, cInnerBagsAfterZero, apInnerBags, 0)

\* InnerBag::GenerateInnerBags
GenerateInnerBags(h, pRng, cSamples, aWeights, cInnerBags) ==
  LET cInnerBagsAfterZero == AfterZero(cInnerBags)
      a == EbmMalloc(h, "InnerBagPtr", cInnerBagsAfterZero) IN
  IF a.p = NULL THEN Outcome(a.h, pRng, NULL)
  ELSE
  LET apInnerBags == a.p
      h1 == [a.h EXCEPT !.mem[apInnerBags].ints = Fill(cInnerBagsAfterZero, NULL)] IN
  IF cInnerBags = 0
  THEN LET f == GenerateFlatInnerBag(h1, cSamples, aWeights) IN
       IF f.ret = NULL
       THEN Outcome(free(f.h, apInnerBags), pRng, NULL)
       ELSE Outcome([f.h EXCEPT !.mem[apInnerBags].ints[1] = f.ret], pRng, apInnerBags)
  ELSE BagLoop(h1, pRng, cSamples, aWeights, cInnerBags, apInnerBags, 0)

\* ------------------------------------------------------------------ the program's state
\* rng:  the state of the shared generator handle (*pRng)
\* heap: the blocks of the current round, [mem, ub]
\* pc:   where the caller is: "idle", "returned" (a call has returned) or
\*       "released" (what it returned has been released)
\* last: the call made in this round, its arguments and its result, and what
\*       the caller has done since with its weight buffer (buffer)
\* prev: the first call of the round when last repeats it, else NoCall
VARIABLES rng, heap, pc, last, prev

vars == <<rng, heap, pc, last, prev>>

\* the external weights a caller passes: none (<<>>), or one value per sample
WeightVals == {Fin(-1), Fin(0), Fin(1), Fin(FastMax), PosInf, NaN}
WeightInputs(cSamples) == {<<>>} \cup SeqsOf(WeightVals, cSamples)

\* the external weights GenerateInnerBags is called with: enough for every
\* bag of the set to succeed or fail, whatever the bags before it did
SetWeightVals == {Fin(0), Fin(1), PosInf}
SetWeightInputs(cSamples) == {<<>>} \cup SeqsOf(SetWeightVals, cSamples)

\* the content of fresh memory
GarbageVals == {0, 1}

NoView == [counts |-> <<>>, weights |-> <<>>, total |-> NaN]

NoCall ==
  [op |-> "none", cSamples |-> 0, ext |-> <<>>, aWeights |-> NULL, cInnerBags |-> 0,
   failAt |-> 0, rng0 |-> <<>>, rng1 |-> <<>>, ret |-> NULL, view |-> NoView,
   scanned |-> 0, buffer |-> "intact"]

EmptyHeap == [mem |-> <<>>, ub |-> FALSE]

\* the heap a call starts in: the caller's weight buffer, if any, is block 1
StartHeap(ext, failAt, g) ==
  [mem |-> IF Len(ext) = 0 THEN <<>> ELSE <<Block("caller", <<>>, ext)>>,
   ub |-> FALSE, mallocs |-> 0, failAt |-> failAt, garbage |-> g]

ArgWeights(ext) == IF Len(ext) = 0 THEN NULL ELSE 1

Visible(h) == [mem |-> h.mem, ub |-> h.ub]

\* the bag at p, read through its fields
BagView(h, p) ==
  [counts |-> h.mem[h.mem[p].ints[FieldCount]].ints,
   weights |-> h.mem[h.mem[p].ints[FieldWeights]].flts,
   total |-> h.mem[p].flts[1]]

ViewOf(h, p) == IF p = NULL THEN NoView ELSE BagView(h, p)

Init ==
  /\ rng \in RngStates
  /\ heap = EmptyHeap
  /\ pc = "idle"
  /\ last = NoCall
  /\ prev = NoCall

\* the caller calls GenerateSingleInnerBag(&rng, cSamples, aWeights)
CallGenerateSingleInnerBag ==
  /\ pc = "idle"
  /\ \E cSamples \in 1 .. MaxSamples, failAt \in 0 .. 3, g \in GarbageVals :
       \E ext \in WeightInputs(cSamples) :
         LET o == GenerateSingleInnerBag(StartHeap(ext, failAt, g), rng, cSamples,
                                         ArgWeights(ext))
         IN /\ rng' = o.rng
            /\ heap' = Visible(o.h)
            /\ last' = [op |-> "single", cSamples |-> cSamples, ext |-> ext,
                        aWeights |-> ArgWeights(ext), cInnerBags |-> 0,
                        failAt |-> failAt, rng0 |-> rng, rng1 |-> o.rng, ret |-> o.ret,
                        view |-> ViewOf(o.h, o.ret), scanned |-> 0,
                        buffer |-> "intact"]
  /\ pc' = "returned"
  /\ prev' = NoCall

\* the caller resets the handle to the state it had before the last
\* GenerateSingleInnerBag call and repeats the call: same arguments, same
\* failing allocation, fresh memory of any content
RepeatGenerateSingleInnerBag ==
  /\ last.op = "single"
  /\ prev = NoCall
  /\ pc = "released" \/ (pc = "returned" /\ last.ret = NULL)
  /\ \E g \in GarbageVals :
       LET o == GenerateSingleInnerBag(StartHeap(last.ext, last.failAt, g),
                                       RngInitialize(last.rng0), last.cSamples,
                                       last.aWeights)
       IN /\ rng' = o.rng
          /\ heap' = Visible(o.h)
          /\ last' = [last EXCEPT !.ret = o.ret, !.view = ViewOf(o.h, o.ret),
                               !.rng1 = o.rng, !.buffer = "intact"]
  /\ prev' = last
  /\ pc' = "returned"

\* the caller calls GenerateFlatInnerBag(cSamples, aWeights)
CallGenerateFlatInnerBag ==
  /\ pc = "idle"
  /\ \E cSamples \in 1 .. MaxSamples, failAt \in 0 .. 3, g \in GarbageVals :
       \E ext \in WeightInputs(cSamples) :
         LET o == GenerateFlatInnerBag(StartHeap(ext, failAt, g), cSamples,
                                       ArgWeights(ext))
         IN /\ heap' = Visible(o.h)
            /\ last' = [op |-> "flat", cSamples |-> cSamples, ext |-> ext,
                        aWeights |-> ArgWeights(ext), cInnerBags |-> 0,
                        failAt |-> failAt, rng0 |-> rng, rng1 |-> rng, ret |-> o.ret,
                        view |-> ViewOf(o.h, o.ret), scanned |-> 0,
                        buffer |-> "intact"]
  /\ pc' = "returned"
  /\ UNCHANGED <<rng, prev>>

\* the caller calls GenerateInnerBags(&rng, cSamples, aWeights, cInnerBags)
CallGenerateInnerBags ==
  /\ pc = "idle"
  /\ \E cSamples \in 1 .. MaxSamples, cInnerBags \in 0 .. MaxBags, g \in GarbageVals :
       \E failAt \in 0 .. (1 + 3 * AfterZero(cInnerBags)), ext \in SetWeightInputs(cSamples) :
         LET o == GenerateInnerBags(StartHeap(ext, failAt, g), rng, cSamples,
                                    ArgWeights(ext), cInnerBags)
         IN /\ rng' = o.rng
            /\ heap' = Visible(o.h)
            /\ last' = [op |-> "set", cSamples |-> cSamples, ext |-> ext,
                        aWeights |-> ArgWeights(ext), cInnerBags |-> cInnerBags,
                        failAt |-> failAt, rng0 |-> rng, rng1 |-> o.rng, ret |-> o.ret,
                        view |-> NoView, scanned |-> 0, buffer |-> "intact"]
  /\ pc' = "returned"
  /\ prev' = NoCall

\* the caller releases the bag a factory returned: pInnerBag->Free()
ReleaseBag ==
  /\ pc = "returned"
  /\ last.op \in {"single", "flat"}
  /\ last.ret # NULL
  /\ heap' = InnerBagFree(heap, last.ret)
  /\ pc' = "released"
  /\ UNCHANGED <<rng, last, prev>>

\* the caller hands what GenerateInnerBags returned (a set, or nullptr) to
\* FreeInnerBags(cInnerBags, apInnerBags)
ReleaseInnerBags ==
  /\ pc = "returned"
  /\ last.op = "set"
  /\ LET f == FreeInnerBags(heap, last.cInnerBags, last.ret)
     IN /\ heap' = f.h
        /\ last' = [last EXCEPT !.scanned = f.scanned]
  /\ pc' = "released"
  /\ UNCHANGED <<rng, prev>>

\* what the caller writes over its weights once a construction has returned
Overwritten(cSamples) == Fill(cSamples, NaN)

\* after a construction with external weights returned a bag or a set, the
\* caller reuses its weight buffer for something else
CallerOverwritesWeights ==
  /\ pc = "returned"
  /\ last.ret # NULL
  /\ last.aWeights # NULL
  /\ last.buffer = "intact"
  /\ heap' = [heap EXCEPT !.mem[last.aWeights].flts = Overwritten(last.cSamples)]
  /\ last' = [last EXCEPT !.buffer = "changed"]
  /\ UNCHANGED <<rng, pc, prev>>

\* after a construction with external weights returned a bag or a set, the
\* caller frees its weight buffer
CallerFreesWeights ==
  /\ pc = "returned"
  /\ last.ret # NULL
  /\ last.aWeights # NULL
  /\ last.buffer = "intact"
  /\ heap' = free(heap, last.aWeights)
  /\ last' = [last EXCEPT !.buffer = "freed"]
  /\ UNCHANGED <<rng, pc, prev>>

\* the caller is done with the round
NextRound ==
  /\ pc = "released" \/ (pc = "returned" /\ last.op \in {"single", "flat"} /\ last.ret = NULL)
  /\ heap' = EmptyHeap
  /\ pc' = "idle"
  /\ last' = NoCall
  /\ prev' = NoCall
  /\ UNCHANGED rng

Next ==
  \/ CallGenerateSingleInnerBag
  \/ RepeatGenerateSingleInnerBag
  \/ CallGenerateFlatInnerBag
  \/ CallGenerateInnerBags
  \/ ReleaseBag
  \/ ReleaseInnerBags
  \/ CallerOverwritesWeights
  \/ CallerFreesWeights
  \/ NextRound

Spec == Init /\ [][Next]_vars

\* ------------------------------------------------------------------ the documented scenario
\* the raw outputs of the generator in the documented scenario, one per sample
ScenarioDraws == <<2, 2, 0, 3>>

\* the generator states of the scenario's size
ScenarioTapes == SeqsOf(0 .. (Len(ScenarioDraws) - 1), Len(ScenarioDraws))

ScenarioInit ==
  /\ rng \in ScenarioTapes
  /\ heap = EmptyHeap
  /\ pc = "idle"
  /\ last = NoCall
  /\ prev = NoCall

\* the caller calls GenerateSingleInnerBag(&rng, cSamples, nullptr) with up to
\* as many samples as the scenario has
ScenarioCallGenerateSingleInnerBag ==
  /\ pc = "idle"
  /\ \E cSamples \in 1 .. Len(ScenarioDraws), g \in GarbageVals :
       LET o == GenerateSingleInnerBag(StartHeap(<<>>, 0, g), rng, cSamples, NULL)
       IN /\ rng' = o.rng
          /\ heap' = Visible(o.h)
          /\ last' = [op |-> "single", cSamples |-> cSamples, ext |-> <<>>,
                      aWeights |-> NULL, cInnerBags |-> 0,
                      failAt |-> 0, rng0 |-> rng, rng1 |-> o.rng, ret |-> o.ret,
                      view |-> ViewOf(o.h, o.ret), scanned |-> 0,
                        buffer |-> "intact"]
  /\ pc' = "returned"
  /\ prev' = NoCall

ScenarioNext ==
  \/ ScenarioCallGenerateSingleInnerBag
  \/ ReleaseBag
  \/ NextRound

ScenarioSpec == ScenarioInit /\ [][ScenarioNext]_vars

\* ------------------------------------------------------------------ two constructions in steps
\* Two threads each make one GenerateSingleInnerBag call. In ThreadSpec
\*   rng  is the pair of generator handles, a call being passed one of them,
\*   pc   is the pair of the threads' positions: "entry", "checkout", "loop",
\*        "checkin", "finish", "done",
\*   last is the pair of the calls' records (arguments, locals, result),
\* and heap and prev are not used: every call allocates in a heap of its own.
\* A generator state is copied cell by cell, so that an unprotected copy can
\* be overtaken by the other thread.
Threads == {1, 2}

\* lines 31-56 of GenerateSingleInnerBag: the three allocations and the memset
SingleAllocate(h, cSamples) ==
  LET none == [h |-> h, pRet |-> NULL, aCountOccurrences |-> NULL, aWeightsInternal |-> NULL]
      a1 == EbmMalloc(h, "InnerBag", 1) IN
  IF a1.p = NULL THEN [none EXCEPT !.h = a1.h]
  ELSE
  LET pRet == a1.p
      a2 == EbmMalloc(InitializeUnfailing(a1.h, pRet), "size_t", cSamples) IN
  IF a2.p = NULL THEN [none EXCEPT !.h = InnerBagFree(a2.h, pRet)]
  ELSE
  LET a3 == EbmMalloc([a2.h EXCEPT !.mem[pRet].ints[FieldCount] = a2.p],
                      "FloatFast", cSamples) IN
  IF a3.p = NULL THEN [none EXCEPT !.h = InnerBagFree(a3.h, pRet)]
  ELSE [h |-> Memset([a3.h EXCEPT !.mem[pRet].ints[FieldWeights] = a3.p], a2.p, cSamples),
        pRet |-> pRet, aCountOccurrences |-> a2.p, aWeightsInternal |-> a3.p]

\* one iteration of the sampling loop, lines 62-63
DrawStep(counts, cpuRng, cSamples) ==
  LET d == NextFast(cpuRng, cSamples)
      iCountOccurrences == d.val + 1
  IN [counts |-> [counts EXCEPT ![iCountOccurrences] = @ + 1], rng |-> d.rng]

\* lines 67-98 of GenerateSingleInnerBag: the weights, the total, the return
SingleFinish(h, cSamples, aWeights, pRet, aCountOccurrences, aWeightsInternal) ==
  LET counts == h.mem[aCountOccurrences].ints IN
  IF aWeights = NULL
  THEN LET h3 == [h EXCEPT !.mem[aWeightsInternal].flts = CountsAsWeights(counts, cSamples)]
           total == FromSizeT(cSamples)
       IN [h |-> [h3 EXCEPT !.mem[pRet].flts = <<total>>], ret |-> pRet]
  ELSE LET h3 == [h EXCEPT !.mem[aWeightsInternal].flts =
                               CountsTimesWeights(counts, WeightsAt(h, aWeights), cSamples)]
           total == AddPositiveFloatsSafeBig(cSamples, h3.mem[aWeightsInternal].flts)
       IN IF BadTotal(total)
          THEN [h |-> InnerBagFree(h3, pRet), ret |-> NULL]
          ELSE [h |-> [h3 EXCEPT !.mem[pRet].flts = <<total>>], ret |-> pRet]

\* one cell of cpuRng.Initialize(*pRng), line 60
CheckoutCell(cpuRng, handle, iCell) == [cpuRng EXCEPT ![iCell] = handle[iCell]]

\* line 65 forgotten: the handle keeps its state
CheckinSkipped(handle, cpuRng, iCell) == handle

\* one cell of pRng->Initialize(cpuRng), line 65
CheckinCell(handle, cpuRng, iCell) == [handle EXCEPT ![iCell] = cpuRng[iCell]]

\* the working copy made a single object shared by all calls
CpuRngShared(t) == 1

\* the call whose record holds the working copy cpuRng of thread t's call:
\* cpuRng is a local of the call (line 59)
CpuRngOf(t) == t

\* the external weights of a call made in steps: none, or all zero
ThreadWeightInputs(cSamples) == {<<>>, Fill(cSamples, Fin(0))}

\* the record of a call not yet entered
ThreadStart(handle, cSamples, ext, failAt) ==
  [handle |-> handle, cSamples |-> cSamples, ext |-> ext, aWeights |-> ArgWeights(ext),
   failAt |-> failAt, h |-> StartHeap(ext, failAt, 1),
   pRet |-> NULL, aCountOccurrences |-> NULL, aWeightsInternal |-> NULL,
   iCell |-> 1, iSample |-> 0, rng0 |-> <<>>, cpu0 |-> <<>>,
   cpuRng |-> Fill(TapeLen, 0), checkins |-> 0, ret |-> NULL, view |-> NoView]

\* thread 1 makes any call; thread 2 makes a call without external weights in
\* which no allocation fails, on the same handle or on a handle of its own
\* that starts in the same state
ThreadInit ==
  /\ \E r \in RngStates : rng = <<r, r>>
  /\ heap = EmptyHeap
  /\ pc = <<"entry", "entry">>
  /\ prev = NoCall
  /\ \E c1 \in 1 .. MaxSamples, c2 \in 1 .. MaxSamples, f1 \in 0 .. 3, hd2 \in Threads :
       \E ext1 \in ThreadWeightInputs(c1) :
         last = <<ThreadStart(1, c1, ext1, f1), ThreadStart(hd2, c2, <<>>, 0)>>

\* thread t enters the call and runs lines 31-56
ThreadAllocate(t) ==
  /\ pc[t] = "entry"
  /\ LET me == last[t]
         a == SingleAllocate(me.h, me.cSamples)
     IN /\ last' = [last EXCEPT ![t] =
                      [me EXCEPT !.h = a.h, !.pRet = a.pRet,
                                 !.aCountOccurrences = a.aCountOccurrences,
                                 !.aWeightsInternal = a.aWeightsInternal,
                                 !.rng0 = rng[me.handle]]]
        /\ pc' = [pc EXCEPT ![t] = IF a.pRet = NULL THEN "done" ELSE "checkout"]
  /\ UNCHANGED <<rng, heap, prev>>

\* thread t copies one cell of the handle into its working copy (line 60)
ThreadCheckout(t) ==
  /\ pc[t] = "checkout"
  /\ LET me == last[t]
         o == CpuRngOf(t)
         copy == CheckoutCell(last[o].cpuRng, rng[me.handle], me.iCell)
         end == me.iCell = Len(copy)
         l1 == [last EXCEPT ![o].cpuRng = copy]
     IN /\ last' = [l1 EXCEPT ![t].iCell = IF end THEN 1 ELSE me.iCell + 1,
                              ![t].cpu0 = IF end THEN copy ELSE me.cpu0]
        /\ pc' = [pc EXCEPT ![t] = IF end THEN "loop" ELSE "checkout"]
  /\ UNCHANGED <<rng, heap, prev>>

\* thread t runs one iteration of the sampling loop, or leaves it (lines 61-64)
ThreadDraw(t) ==
  /\ pc[t] = "loop"
  /\ LET me == last[t]
         o == CpuRngOf(t)
     IN IF me.iSample < me.cSamples
        THEN LET d == DrawStep(me.h.mem[me.aCountOccurrences].ints, last[o].cpuRng,
                               me.cSamples)
                 l1 == [last EXCEPT ![o].cpuRng = d.rng]
             IN /\ last' = [l1 EXCEPT ![t].h.mem[me.aCountOccurrences].ints = d.counts,
                                      ![t].iSample = me.iSample + 1]
                /\ pc' = pc
        ELSE /\ last' = last
             /\ pc' = [pc EXCEPT ![t] = "checkin"]
  /\ UNCHANGED <<rng, heap, prev>>

\* thread t copies one cell of its working copy into the handle (line 65)
ThreadCheckin(t) ==
  /\ pc[t] = "checkin"
  /\ LET me == last[t]
         o == CpuRngOf(t)
         end == me.iCell = Len(rng[me.handle])
     IN /\ rng' = [rng EXCEPT ![me.handle] = CheckinCell(@, last[o].cpuRng, me.iCell)]
        /\ last' = [last EXCEPT ![t].iCell = IF end THEN 1 ELSE me.iCell + 1,
                                ![t].checkins = IF end THEN me.checkins + 1 ELSE me.checkins]
        /\ pc' = [pc EXCEPT ![t] = IF end THEN "finish" ELSE "checkin"]
  /\ UNCHANGED <<heap, prev>>

\* thread t runs lines 67-98 and returns
ThreadFinish(t) ==
  /\ pc[t] = "finish"
  /\ LET me == last[t]
         f == SingleFinish(me.h, me.cSamples, me.aWeights, me.pRet,
                           me.aCountOccurrences, me.aWeightsInternal)
     IN last' = [last EXCEPT ![t] = [me EXCEPT !.h = f.h, !.ret = f.ret,
                                                !.view = ViewOf(f.h, f.ret)]]
  /\ pc' = [pc EXCEPT ![t] = "done"]
  /\ UNCHANGED <<rng, heap, prev>>

ThreadNext ==
  \E t \in Threads :
    \/ ThreadAllocate(t)
    \/ ThreadCheckout(t)
    \/ ThreadDraw(t)
    \/ ThreadCheckin(t)
    \/ ThreadFinish(t)

ThreadSpec == ThreadInit /\ [][ThreadNext]_vars

\* ------------------------------------------------------------------ the set construction in steps
\* GenerateInnerBags statement by statement. In ConstructSpec
\*   rng  is the generator handle,
\*   heap is the heap of the call, [mem, ub, mallocs, failAt, garbage],
\*   pc   is the position: "idle", "allocated" (in the loop of line 212),
\*        "zeroed" (at line 216 or 227), "built" (at line 224 or 234), "failed"
\*        (at line 221 or 231), "returned", "released",
\*   last is the call's record (arguments, locals, result),
\* and prev is not used.

\* line 213 forgotten: the slot keeps what fresh memory held
NullSlotSkipped(h, apInnerBags, i) == h

\* apInnerBags[i] = nullptr, line 213 (i from 0)
NullSlot(h, apInnerBags, i) == [h EXCEPT !.mem[apInnerBags].ints[i + 1] = NULL]

ConstructInit ==
  /\ rng \in RngStates
  /\ heap = EmptyHeap
  /\ pc = "idle"
  /\ last = NoCall
  /\ prev = NoCall

\* the caller enters GenerateInnerBags: lines 205-211
ConstructEnter ==
  /\ pc = "idle"
  /\ \E cSamples \in 1 .. MaxSamples, cInnerBags \in 0 .. MaxBags, g \in GarbageVals :
       \E failAt \in 0 .. (1 + 3 * AfterZero(cInnerBags)), ext \in SetWeightInputs(cSamples) :
         LET a == EbmMalloc(StartHeap(ext, failAt, g), "InnerBagPtr", AfterZero(cInnerBags))
         IN /\ heap' = a.h
            /\ last' = [op |-> "construct", cSamples |-> cSamples, ext |-> ext,
                        aWeights |-> ArgWeights(ext), cInnerBags |-> cInnerBags,
                        failAt |-> failAt, rng0 |-> rng, apInnerBags |-> a.p,
                        i |-> 0, iInnerBag |-> 0, pSingleInnerBag |-> NULL, ret |-> NULL,
                        teardown |-> "none", tornScanned |-> 0,
                        tornNulls |-> 0, scanned |-> 0, nulls |-> 0]
            /\ pc' = IF a.p = NULL THEN "returned" ELSE "allocated"
  /\ UNCHANGED <<rng, prev>>

\* one iteration of the loop of lines 212-214
ConstructZero ==
  /\ pc = "allocated"
  /\ heap' = NullSlot(heap, last.apInnerBags, last.i)
  /\ last' = [last EXCEPT !.i = @ + 1]
  /\ pc' = IF last.i + 1 < AfterZero(last.cInnerBags) THEN "allocated" ELSE "zeroed"
  /\ UNCHANGED <<rng, prev>>

\* line 218: the flat bag of a set with cInnerBags = 0
ConstructFlat ==
  /\ pc = "zeroed"
  /\ last.cInnerBags = 0
  /\ LET f == GenerateFlatInnerBag(heap, last.cSamples, last.aWeights)
     IN /\ heap' = f.h
        /\ last' = [last EXCEPT !.pSingleInnerBag = f.ret]
        /\ pc' = IF f.ret = NULL THEN "failed" ELSE "built"
  /\ UNCHANGED <<rng, prev>>

\* line 228: the next bootstrap bag of a set with cInnerBags > 0
ConstructBuild ==
  /\ pc = "zeroed"
  /\ last.cInnerBags > 0
  /\ LET o == GenerateSingleInnerBag(heap, rng, last.cSamples, last.aWeights)
     IN /\ heap' = o.h
        /\ rng' = o.rng
        /\ last' = [last EXCEPT !.pSingleInnerBag = o.ret]
        /\ pc' = IF o.ret = NULL THEN "failed" ELSE "built"
  /\ UNCHANGED prev

\* lines 224 and 234-236: the bag goes into its slot; the call returns the
\* set after the last one
ConstructStore ==
  /\ pc = "built"
  /\ heap' = [heap EXCEPT !.mem[last.apInnerBags].ints[last.iInnerBag + 1] =
                            last.pSingleInnerBag]
  /\ LET end == AfterZero(last.cInnerBags) = last.iInnerBag + 1
     IN /\ last' = [last EXCEPT !.iInnerBag = @ + 1, !.pSingleInnerBag = NULL,
                                !.ret = IF end THEN last.apInnerBags ELSE NULL]
        /\ pc' = IF end THEN "returned" ELSE "zeroed"
  /\ UNCHANGED <<rng, prev>>

\* lines 221-222 and 231-232: the failure path releases and returns nullptr
ConstructTeardown ==
  /\ pc = "failed"
  /\ IF last.cInnerBags = 0
     THEN /\ heap' = free(heap, last.apInnerBags)
          /\ last' = [last EXCEPT !.teardown = "free"]
     ELSE LET f == FreeInnerBags(heap, last.cInnerBags, last.apInnerBags)
          IN /\ heap' = f.h
             /\ last' = [last EXCEPT !.teardown = "FreeInnerBags",
                                     !.tornScanned = f.scanned, !.tornNulls = f.nulls]
  /\ pc' = "returned"
  /\ UNCHANGED <<rng, prev>>

\* the caller hands what the call returned to FreeInnerBags
ConstructRelease ==
  /\ pc = "returned"
  /\ LET f == FreeInnerBags(heap, last.cInnerBags, last.ret)
     IN /\ heap' = f.h
        /\ last' = [last EXCEPT !.scanned = f.scanned, !.nulls = f.nulls]
  /\ pc' = "released"
  /\ UNCHANGED <<rng, prev>>

ConstructNext ==
  \/ ConstructEnter
  \/ ConstructZero
  \/ ConstructFlat
  \/ ConstructBuild
  \/ ConstructStore
  \/ ConstructTeardown
  \/ ConstructRelease

ConstructSpec == ConstructInit /\ [][ConstructNext]_vars

\* ------------------------------------------------------------------ vocabulary of the properties
RECURSIVE SumUpTo(_, _)
SumUpTo(q, n) == IF n = 0 THEN 0 ELSE q[n] + SumUpTo(q, n - 1)

SumInts(q) == SumUpTo(q, Len(q))

\* the blocks the calls of this round allocated (all but the caller's buffer)
OwnBlocks == {p \in 1 .. Len(heap.mem) : heap.mem[p].kind # "caller"}

\* nothing leaked, nothing released twice, no wild or dangling access
AllReleasedOnce ==
  /\ ~heap.ub
  /\ \A p \in OwnBlocks : ~heap.mem[p].live /\ heap.mem[p].frees = 1

ReturnedBy(op) == pc = "returned" /\ last.op = op /\ last.ret # NULL

\* the bags a bootstrap construction handed out in the current state
BootstrapBags ==
  IF ReturnedBy("single") THEN {last.ret}
  ELSE IF ReturnedBy("set") /\ last.cInnerBags > 0
       THEN {heap.mem[last.ret].ints[i] : i \in 1 .. Len(heap.mem[last.ret].ints)} \ {NULL}
       ELSE {}

\* the bags a flat construction handed out in the current state
FlatBags ==
  IF ReturnedBy("flat") THEN {last.ret}
  ELSE IF ReturnedBy("set") /\ last.cInnerBags = 0
       THEN {heap.mem[last.ret].ints[1]} \ {NULL}
       ELSE {}

\* the external weight of sample i, 1 when none are supplied
ExternalWeight(i) == IF last.aWeights = NULL THEN Fin(1) ELSE last.ext[i]

Positive(x) == IsFinite(x) /\ x.v > 0

AllZero(w) == \A i \in 1 .. Len(w) : w[i] = Fin(0)
HasNonFinite(w) == \E i \in 1 .. Len(w) : ~IsFinite(w[i])
SumsToLeqZero(w) == LeqZero(AddPositiveFloatsSafeBig(Len(w), w))

\* a factory call with external weights in which every allocation succeeded
WeightedCall(op) ==
  pc = "returned" /\ last.op = op /\ last.failAt = 0 /\ last.aWeights # NULL

\* the call failed and the bag object and both arrays are released exactly once
FailedAndReleasedThree ==
  /\ last.ret = NULL
  /\ Cardinality(OwnBlocks) = 3
  /\ AllReleasedOnce

\* ------------------------------------------------------------------ the properties

\* C1: a bag returned by GenerateSingleInnerBag has occurrence counts that sum
\* to cSamples, and without external weights its m_weightTotal is cSamples.
C1_BootstrapCountsSumToSampleCount ==
  \A p \in BootstrapBags :
    LET b == BagView(heap, p) IN
    /\ Len(b.counts) = last.cSamples
    /\ SumInts(b.counts) = last.cSamples
    /\ last.aWeights = NULL => b.total = Fin(last.cSamples)

C1_Witness ==
  /\ ReturnedBy("single")
  /\ last.aWeights = NULL
  /\ last.cSamples = MaxSamples
  /\ \E i \in 1 .. last.cSamples : BagView(heap, last.ret).counts[i] = 0

\* C2: a bag returned by GenerateFlatInnerBag has every occurrence count 1, its
\* weights are the external weights verbatim (1 when there are none), its total
\* is cSamples when there are none, and with external weights and every
\* allocation succeeding it is returned whenever their sum is finite and > 0.
C2_FlatBagIsIdentity ==
  /\ \A p \in FlatBags :
       LET b == BagView(heap, p) IN
       /\ b.counts = Fill(last.cSamples, 1)
       /\ b.weights = [i \in 1 .. last.cSamples |-> ExternalWeight(i)]
       /\ last.aWeights = NULL => b.total = Fin(last.cSamples)
  /\ (WeightedCall("flat")
      /\ Positive(AddPositiveFloatsSafeBig(last.cSamples, last.ext)))
     => last.ret # NULL

C2_Witness ==
  /\ ReturnedBy("flat")
  /\ last.cSamples = MaxSamples
  /\ last.aWeights # NULL
  /\ last.ext[1] = Fin(0)
  /\ BagView(heap, last.ret).weights = last.ext

\* C3: a GenerateSingleInnerBag call repeated from the same generator state with
\* the same arguments gives the same counts, weights and total, the same
\* success or failure, and leaves the generator in the same state.
C3_BootstrapIsDeterministic ==
  (pc = "returned" /\ prev.op = "single")
  => /\ last.view = prev.view
     /\ (last.ret = NULL) <=> (prev.ret = NULL)
     /\ last.rng1 = prev.rng1
     /\ rng = prev.rng1

C3_Witness ==
  /\ pc = "returned"
  /\ prev.op = "single"
  /\ last.ret # NULL
  /\ last.aWeights # NULL
  /\ last.rng1 # last.rng0
  /\ \E i \in 1 .. last.cSamples : last.view.counts[i] >= 2

\* C4: every bag a factory returns has an m_weightTotal that is the sum of its
\* weights and is finite and > 0.
C4_ReturnedTotalIsSumAndPositive ==
  \A p \in BootstrapBags \cup FlatBags :
    LET b == BagView(heap, p) IN
    /\ b.total = AddPositiveFloatsSafeBig(last.cSamples, b.weights)
    /\ ~IsNan(b.total)
    /\ ~IsInf(b.total)
    /\ b.total.v > 0

C4_Witness ==
  /\ ReturnedBy("single")
  /\ last.aWeights # NULL
  /\ \E i \in 1 .. last.cSamples : last.ext[i] = Fin(-1)
  /\ BagView(heap, last.ret).total = Fin(2)

C6_ZeroAmongPositiveSucceeds ==
  (/\ WeightedCall("single")
   /\ \E i \in 1 .. last.cSamples : last.ext[i] = Fin(0)
   /\ \E i \in 1 .. last.cSamples : Positive(last.ext[i])
   /\ \A i \in 1 .. last.cSamples : last.ext[i] = Fin(0) \/ Positive(last.ext[i]))
  => /\ last.ret # NULL
     /\ Positive(last.view.total)

\* the slots of the set GenerateInnerBags returned
Slots == heap.mem[last.ret].ints

\* the flat construction GenerateInnerBags(.., 0) stands for, made directly:
\* allocation request k of the set call is request k - 1 of the direct call
DirectFlat ==
  GenerateFlatInnerBag(
    StartHeap(last.ext, IF last.failAt <= 1 THEN 0 ELSE last.failAt - 1, 0),
    last.cSamples, last.aWeights)

\* C7: GenerateInnerBags with cInnerBags = 0 returns one slot whose bag has the
\* counts, weights and total of a direct GenerateFlatInnerBag call; it fails
\* exactly when that call or the slot allocation fails, and then everything it
\* allocated is released and nothing is returned.
C7_ZeroBagsIsOneFlatBag ==
  (pc = "returned" /\ last.op = "set" /\ last.cInnerBags = 0)
  => /\ (last.ret # NULL) <=> (last.failAt # 1 /\ DirectFlat.ret # NULL)
     /\ last.ret # NULL =>
          /\ Len(Slots) = 1
          /\ IsLive(heap, Slots[1])
          /\ BagView(heap, Slots[1]) = BagView(DirectFlat.h, DirectFlat.ret)
     /\ last.ret = NULL => AllReleasedOnce

C7_Witness ==
  /\ ReturnedBy("set")
  /\ last.cInnerBags = 0
  /\ last.cSamples = MaxSamples
  /\ last.aWeights # NULL
  /\ BagView(heap, Slots[1]).weights[1] = Fin(0)

\* p is a live bag with live arrays of cSamples cells, counts summing to
\* cSamples and a finite total > 0
ValidBootstrapBag(p) ==
  /\ IsLive(heap, p)
  /\ heap.mem[p].kind = "InnerBag"
  /\ IsLive(heap, heap.mem[p].ints[FieldCount])
  /\ IsLive(heap, heap.mem[p].ints[FieldWeights])
  /\ Len(BagView(heap, p).counts) = last.cSamples
  /\ Len(BagView(heap, p).weights) = last.cSamples
  /\ SumInts(BagView(heap, p).counts) = last.cSamples
  /\ Positive(BagView(heap, p).total)

\* C8: GenerateInnerBags with cInnerBags = N > 0 returns N non-null slots, each
\* owning its own valid bootstrap bag, or returns nullptr with every block it
\* allocated released exactly once; it returns nullptr whenever an allocation
\* failed.
C8_BagSetIsAllOrNothing ==
  (pc = "returned" /\ last.op = "set" /\ last.cInnerBags > 0)
  => /\ last.ret # NULL =>
          /\ ~heap.ub
          /\ Len(Slots) = last.cInnerBags
          /\ \A i \in 1 .. Len(Slots) : Slots[i] # NULL /\ ValidBootstrapBag(Slots[i])
          /\ \A i, j \in 1 .. Len(Slots) :
               i # j => /\ Slots[i] # Slots[j]
                        /\ {heap.mem[Slots[i]].ints[f] : f \in {FieldCount, FieldWeights}}
                           \cap {heap.mem[Slots[j]].ints[f] : f \in {FieldCount, FieldWeights}}
                           = {}
          /\ \A p \in OwnBlocks : heap.mem[p].live /\ heap.mem[p].frees = 0
     /\ last.ret = NULL => AllReleasedOnce
     /\ last.failAt # 0 => last.ret = NULL

C8_Witness ==
  /\ pc = "returned"
  /\ last.op = "set"
  /\ last.cInnerBags = MaxBags
  /\ last.failAt = 0
  /\ last.ret = NULL
  /\ Cardinality(OwnBlocks) = 1 + 3 * MaxBags

\* C9: FreeInnerBags(c, slots) on what GenerateInnerBags(.., c) returned scans
\* max(c, 1) slots and releases every bag, both arrays of each bag and the slot
\* sequence exactly once, reading no slot outside the sequence; with nullptr
\* for the slot sequence it scans and releases nothing.
C9_ReleaseMatchesConstruct ==
  (pc = "released" /\ last.op = "set")
  => /\ AllReleasedOnce
     /\ last.scanned = IF last.ret = NULL THEN 0 ELSE AfterZero(last.cInnerBags)

C9_Witness ==
  /\ pc = "released"
  /\ last.op = "set"
  /\ last.cInnerBags = 0
  /\ last.ret # NULL
  /\ last.scanned = 1
  /\ Cardinality(OwnBlocks) = 4

\* C10: in every bag GenerateSingleInnerBag returns, weight[i] is
\* occurrenceCount[i] * externalWeight[i], the external weight being 1 when
\* none are supplied.
C10_WeightIsCountTimesExternal ==
  \A p \in BootstrapBags :
    LET b == BagView(heap, p) IN
    \A i \in 1 .. last.cSamples :
      b.weights[i] = FloatMul(FromSizeT(b.counts[i]), ExternalWeight(i), FastMax)

C10_Witness ==
  /\ ReturnedBy("single")
  /\ last.aWeights # NULL
  /\ \E i \in 1 .. last.cSamples :
       /\ BagView(heap, last.ret).counts[i] = 2
       /\ last.ext[i] = Fin(1)
       /\ BagView(heap, last.ret).weights[i] = Fin(2)

\* the values the next n draws with the given bound return from state r
RECURSIVE DrawsFrom(_, _, _)
DrawsFrom(r, n, bound) ==
  IF n = 0 THEN <<>>
  ELSE <<NextFast(r, bound).val>> \o DrawsFrom(NextFast(r, bound).rng, n - 1, bound)

\* the number of entries of q equal to v
Occurrences(q, v) == Cardinality({j \in 1 .. Len(q) : q[j] = v})

\* C11: a bag returned by GenerateSingleInnerBag has, for every index i, an
\* occurrence count equal to the number of the cSamples draws with bound
\* cSamples (made from the handle's state at entry) that returned i, and the
\* handle is left in the state after exactly those draws; with cSamples = 4, no
\* external weights and draws 2, 2, 0, 3 the counts are 1, 0, 2, 1, the weights
\* 1, 0, 2, 1 and the total 4.
C11_CountsAreDrawHistogram ==
  /\ ReturnedBy("single") =>
       LET b == BagView(heap, last.ret)
           d == DrawsFrom(last.rng0, last.cSamples, last.cSamples)
       IN /\ Len(b.counts) = last.cSamples
          /\ \A i \in 1 .. last.cSamples : b.counts[i] = Occurrences(d, i - 1)
          /\ rng = Advance(last.rng0, last.cSamples)
  /\ (ReturnedBy("single") /\ last.cSamples = 4 /\ last.aWeights = NULL
      /\ DrawsFrom(last.rng0, 4, 4) = ScenarioDraws) =>
       LET b == BagView(heap, last.ret)
       IN /\ b.counts = <<1, 0, 2, 1>>
          /\ b.weights = <<Fin(1), Fin(0), Fin(2), Fin(1)>>
          /\ b.total = Fin(4)

C11_Witness ==
  /\ ReturnedBy("single")
  /\ last.cSamples = 4
  /\ last.aWeights = NULL
  /\ last.rng0 = ScenarioDraws
  /\ BagView(heap, last.ret).counts = <<1, 0, 2, 1>>

\* C12: when the first, second or third allocation of GenerateSingleInnerBag or
\* GenerateFlatInnerBag fails, the call returns nullptr, the blocks allocated
\* before it in that call are each released exactly once with no wild or
\* repeated free and nothing else is allocated, and GenerateSingleInnerBag
\* leaves the generator handle as it was at entry.
C12_AllocationFailureRollsBack ==
  (pc = "returned" /\ last.op \in {"single", "flat"} /\ last.failAt \in 1 .. 3)
  => /\ last.ret = NULL
     /\ AllReleasedOnce
     /\ Cardinality(OwnBlocks) = last.failAt - 1
     /\ last.op = "single" => (rng = last.rng0 /\ last.rng1 = last.rng0)

C12_Witness ==
  /\ pc = "returned"
  /\ last.op = "single"
  /\ last.failAt = 3
  /\ last.ret = NULL
  /\ Cardinality(OwnBlocks) = 2
  /\ \A p \in OwnBlocks : heap.mem[p].frees = 1
  /\ Advance(last.rng0, last.cSamples) # last.rng0
  /\ rng = last.rng0

\* the generator handle thread t's call was passed, and whether no other call
\* was passed it
Handle(t) == rng[last[t].handle]
Exclusive(t) == \A u \in Threads \ {t} : last[u].handle # last[t].handle

\* thread t's call has returned, and an allocation failed in it
AllocationFailed(t) == pc[t] = "done" /\ last[t].pRet = NULL

\* thread t's call is past its check-in of line 65
CheckedIn(t) == pc[t] \in {"finish", "done"} /\ last[t].pRet # NULL

\* C13 as stated: every GenerateSingleInnerBag call (on a handle no other call
\* uses) has, when it returns, stored into the handle exactly once, and the
\* handle then holds the state cSamples draws after its state at entry.
C13_Original ==
  \A t \in Threads :
    (pc[t] = "done" /\ Exclusive(t))
    => /\ last[t].checkins = 1
       /\ Handle(t) = Advance(last[t].rng0, last[t].cSamples)

\* C13 as amended: a GenerateSingleInnerBag call whose three allocations
\* succeed stores its working state into the handle exactly once, before it
\* returns, and on a handle no other call uses the handle keeps its state at
\* entry until then and afterwards holds the state cSamples draws later; a
\* call in which an allocation fails never stores into the handle.
C13_HandleStoredOncePerCall ==
  \A t \in Threads :
    /\ last[t].checkins <= 1
    /\ pc[t] = "done" => last[t].checkins = (IF last[t].pRet = NULL THEN 0 ELSE 1)
    /\ CheckedIn(t) =>
         /\ last[t].checkins = 1
         /\ last[t].cpuRng = Advance(last[t].cpu0, last[t].cSamples)
    /\ Exclusive(t) =>
         /\ pc[t] \in {"checkout", "loop"} => Handle(t) = last[t].rng0
         /\ CheckedIn(t) => Handle(t) = Advance(last[t].rng0, last[t].cSamples)
         /\ AllocationFailed(t) => Handle(t) = last[t].rng0

C13_Witness ==
  \E t \in Threads :
    /\ Exclusive(t)
    /\ pc[t] = "done"
    /\ last[t].ret # NULL
    /\ last[t].checkins = 1
    /\ last[t].cSamples = MaxSamples
    /\ Handle(t) = Advance(last[t].rng0, last[t].cSamples)
    /\ Handle(t) # last[t].rng0

\* the k-th of successive direct GenerateSingleInnerBag calls with the
\* arguments of the last call, the first of them made in generator state r
RECURSIVE DirectSingle(_, _)
DirectSingle(r, k) ==
  LET from == IF k = 1 THEN r ELSE DirectSingle(r, k - 1).rng
  IN GenerateSingleInnerBag(StartHeap(last.ext, 0, 0), from, last.cSamples, last.aWeights)

\* C14: a set GenerateInnerBags returns for cInnerBags = N > 0 holds in slot k
\* (from 0) the bag whose counts are the histogram of draws k*cSamples ..
\* (k+1)*cSamples-1 made from the handle's state at entry, every slot holds the
\* bag the k-th of N successive direct GenerateSingleInnerBag calls on that
\* handle returns, and the handle is left advanced by N*cSamples draws.
C14_BagsConsumeSuccessiveDraws ==
  (ReturnedBy("set") /\ last.cInnerBags > 0)
  => /\ \A k \in 1 .. last.cInnerBags :
          LET b == BagView(heap, Slots[k])
              d == DrawsFrom(Advance(last.rng0, (k - 1) * last.cSamples),
                             last.cSamples, last.cSamples)
              direct == DirectSingle(last.rng0, k)
          IN /\ \A i \in 1 .. last.cSamples : b.counts[i] = Occurrences(d, i - 1)
             /\ direct.ret # NULL
             /\ b = BagView(direct.h, direct.ret)
     /\ rng = Advance(last.rng0, last.cInnerBags * last.cSamples)
     /\ rng = DirectSingle(last.rng0, last.cInnerBags).rng

C14_Witness ==
  /\ ReturnedBy("set")
  /\ last.cInnerBags = MaxBags
  /\ last.cSamples = MaxSamples
  /\ BagView(heap, Slots[1]).counts # BagView(heap, Slots[2]).counts
  /\ rng # last.rng0

\* the slot sequence of the set construction under way
ConstructSlots == heap.mem[last.apInnerBags].ints

\* the call is past its loop of lines 212-214 and has not released the slots
SlotsZeroed ==
  pc \in {"zeroed", "built", "failed"} \/ (pc = "returned" /\ last.ret # NULL)

\* C15: at every point of GenerateInnerBags after the loop of lines 212-214,
\* the slots below iInnerBag (the bags stored so far) each hold a live, fully
\* constructed bag that no other slot holds and the slots from iInnerBag on are
\* null; a bag built and not yet stored is live and in no slot; and the
\* failure path leaves every block released exactly once, with no wild,
\* dangling or repeated free.
C15_SlotsAreNullOrOwnLiveBag ==
  /\ SlotsZeroed =>
       /\ ~heap.ub
       /\ IsLive(heap, last.apInnerBags)
       /\ Len(ConstructSlots) = AfterZero(last.cInnerBags)
       /\ \A i \in 1 .. Len(ConstructSlots) :
            IF i <= last.iInnerBag
            THEN ConstructSlots[i] # NULL /\ ValidBootstrapBag(ConstructSlots[i])
            ELSE ConstructSlots[i] = NULL
       /\ \A i, j \in 1 .. last.iInnerBag : i # j => ConstructSlots[i] # ConstructSlots[j]
       /\ pc = "built" =>
            /\ ValidBootstrapBag(last.pSingleInnerBag)
            /\ \A i \in 1 .. Len(ConstructSlots) : ConstructSlots[i] # last.pSingleInnerBag
  /\ (pc = "returned" /\ last.teardown # "none") => (last.ret = NULL /\ AllReleasedOnce)

C15_Witness ==
  /\ pc = "failed"
  /\ last.cInnerBags = MaxBags
  /\ last.iInnerBag = MaxBags - 1
  /\ ConstructSlots[MaxBags - 1] # NULL
  /\ ConstructSlots[MaxBags] = NULL

\* C16 as stated: FreeInnerBags meets no null slot, neither when
\* GenerateInnerBags calls it on its failure path nor when the caller hands it
\* what GenerateInnerBags returned.
C16_Original ==
  /\ (pc = "returned" /\ last.teardown = "FreeInnerBags") => last.tornNulls = 0
  /\ pc = "released" => last.nulls = 0

\* C16 as amended: FreeInnerBags skips null slots and releases the others
\* exactly once; handed a set GenerateInnerBags returned it meets no null
\* slot; called by GenerateInnerBags when bag k could not be built it scans all
\* cInnerBags slots and meets the cInnerBags - k null slots from k on.
C16_NullSlotsOnlyOnFailurePath ==
  /\ (pc = "returned" /\ last.teardown = "FreeInnerBags") =>
       /\ last.tornScanned = last.cInnerBags
       /\ last.tornNulls = last.cInnerBags - last.iInnerBag
       /\ last.tornNulls >= 1
       /\ AllReleasedOnce
  /\ pc = "released" =>
       /\ last.nulls = 0
       /\ last.scanned = (IF last.ret = NULL THEN 0 ELSE AfterZero(last.cInnerBags))
       /\ AllReleasedOnce

C16_Witness ==
  /\ pc = "returned"
  /\ last.teardown = "FreeInnerBags"
  /\ last.cInnerBags = MaxBags
  /\ last.iInnerBag = 1
  /\ last.tornNulls = MaxBags - 1
  /\ Cardinality(OwnBlocks) >= 5

\* the caller's weight buffer
CallerBlock == heap.mem[last.aWeights]

\* the bags alive in the current state
LiveBags == {p \in OwnBlocks : heap.mem[p].kind = "InnerBag" /\ heap.mem[p].live}

\* C17: the caller's weight buffer is never written or released by a factory,
\* by GenerateInnerBags, by Free or by FreeInnerBags: it holds what the caller
\* left in it; no bag's weight array is the caller's buffer; and after the
\* caller overwrites or frees its buffer every returned bag still has the
\* counts, weights and total it was returned with, and releasing it is sound.
C17_CallerBufferNeitherKeptNorTouched ==
  (pc \in {"returned", "released"} /\ last.aWeights # NULL)
  => /\ ~heap.ub
     /\ last.buffer = "intact" => CallerBlock = Block("caller", <<>>, last.ext)
     /\ last.buffer = "changed" =>
          CallerBlock = Block("caller", <<>>, Overwritten(last.cSamples))
     /\ last.buffer = "freed" => (~CallerBlock.live /\ CallerBlock.frees = 1)
     /\ \A p \in LiveBags :
          /\ heap.mem[p].ints[FieldWeights] # last.aWeights
          /\ heap.mem[p].ints[FieldCount] # last.aWeights
          /\ heap.mem[heap.mem[p].ints[FieldWeights]].kind = "FloatFast"
     /\ (ReturnedBy("single") \/ ReturnedBy("flat")) => BagView(heap, last.ret) = last.view
     /\ \A p \in BootstrapBags : \A i \in 1 .. last.cSamples :
          BagView(heap, p).weights[i] =
            FloatMul(FromSizeT(BagView(heap, p).counts[i]), last.ext[i], FastMax)
     /\ \A p \in FlatBags : BagView(heap, p).weights = last.ext

C17_Witness ==
  /\ ReturnedBy("flat")
  /\ last.aWeights # NULL
  /\ last.buffer = "changed"
  /\ CallerBlock.flts # last.ext
  /\ BagView(heap, last.ret).weights = last.ext

\* thread t's call made alone, from the state its handle had at entry
Alone(t) ==
  GenerateSingleInnerBag(StartHeap(last[t].ext, last[t].failAt, 0), last[t].rng0,
                         last[t].cSamples, last[t].aWeights)

\* both calls have returned a bag after checking out the same generator state
\* for the same number of samples
BothDrewFromSameState ==
  /\ \A t \in Threads : pc[t] = "done" /\ last[t].ret # NULL
  /\ last[1].cpu0 = last[2].cpu0
  /\ last[1].cSamples = last[2].cSamples

\* C18: two GenerateSingleInnerBag calls in any interleaving. On handles of
\* their own, each returns the bag (or the failure) and leaves its handle in
\* the state it would when run alone. On one shared handle, whenever both
\* checked out the same state for the same cSamples they return identical
\* occurrence counts and the handle ends cSamples draws after that state, the
\* draws of one call only.
C18_UnprotectedHandleLosesUpdate ==
  /\ \A t \in Threads :
       (Exclusive(t) /\ pc[t] = "done")
       => /\ (last[t].ret = NULL) <=> (Alone(t).ret = NULL)
          /\ last[t].view = ViewOf(Alone(t).h, Alone(t).ret)
          /\ Handle(t) = Alone(t).rng
  /\ (last[1].handle = last[2].handle /\ BothDrewFromSameState)
     => /\ last[1].view.counts = last[2].view.counts
        /\ Handle(1) = Advance(last[1].cpu0, last[1].cSamples)

C18_Witness ==
  /\ last[1].handle = last[2].handle
  /\ BothDrewFromSameState
  /\ last[1].cSamples = MaxSamples
  /\ last[1].cpu0 = last[1].rng0
  /\ last[1].view.counts = last[2].view.counts
  /\ Handle(1) = Advance(last[1].rng0, MaxSamples)
  /\ Handle(1) # Advance(last[1].rng0, 2 * MaxSamples)
  /\ Handle(1) # last[1].rng0

\* the last GenerateInnerBags call made again from generator state r
SetFrom(r) ==
  GenerateInnerBags(StartHeap(last.ext, last.failAt, 0), r, last.cSamples,
                    last.aWeights, last.cInnerBags)

\* C19: GenerateInnerBags with cInnerBags = 0 leaves the generator handle in
\* its state at entry whether it returns a set or nullptr, and made from any
\* other generator state it leaves that state, succeeds or fails alike and
\* returns a flat bag with the same counts, weights and total.
C19_ZeroBagsLeavesGeneratorAlone ==
  (pc = "returned" /\ last.op = "set" /\ last.cInnerBags = 0)
  => /\ rng = last.rng0
     /\ last.rng1 = last.rng0
     /\ \A r \in RngStates :
          LET o == SetFrom(r) IN
          /\ o.rng = r
          /\ (o.ret = NULL) <=> (last.ret = NULL)
          /\ last.ret # NULL =>
               BagView(o.h, o.h.mem[o.ret].ints[1]) = BagView(heap, Slots[1])

C19_Witness ==
  /\ ReturnedBy("set")
  /\ last.cInnerBags = 0
  /\ last.cSamples = MaxSamples
  /\ Advance(last.rng0, last.cSamples) # last.rng0
  /\ rng = last.rng0
  /\ BagView(heap, Slots[1]).counts = Fill(MaxSamples, 1)

\* the bootstrap construction of line 228 has failed, or the call has gone
\* through its failure path of lines 231-232
BootstrapBagFailed ==
  /\ last.op = "construct"
  /\ last.cInnerBags > 0
  /\ pc = "failed" \/ (pc \in {"returned", "released"} /\ last.teardown = "FreeInnerBags")

\* an allocation request of the call was refused
AllocationRefused == heap.failAt # 0 /\ heap.mallocs >= heap.failAt

\* C20: when the GenerateSingleInnerBag call for bag k of GenerateInnerBags
\* fails, the generator handle is not put back: it stays advanced by the
\* draws of bags 0 .. k-1, and by bag k's cSamples draws as well when bag k
\* was rejected for its total and not for a refused allocation; the call
\* returns nullptr and the handle keeps that state.
C20_FailureKeepsGeneratorAdvanced ==
  BootstrapBagFailed
  => /\ rng = Advance(last.rng0,
                      (IF AllocationRefused THEN last.iInnerBag ELSE last.iInnerBag + 1)
                      * last.cSamples)
     /\ last.ret = NULL

C20_Witness ==
  /\ BootstrapBagFailed
  /\ pc = "returned"
  /\ ~AllocationRefused
  /\ last.cInnerBags = MaxBags
  /\ last.iInnerBag = 1
  /\ last.ret = NULL
  /\ rng = Advance(last.rng0, 2 * last.cSamples)
  /\ rng # last.rng0

====
